---- MODULE Spec2Model ----
(***************************************************************************)
(* The matchmaking / signal-relay state machine of the signaling server.   *)
(*                                                                         *)
(* Two servers are modelled: the JavaScript server (src/unnamed/part_000)  *)
(* and the TypeScript variant (src/omegle_server/src/index.ts).  A         *)
(* behaviour runs one of them; `variant` says which.  Every socket.io      *)
(* handler runs to completion on the Node event loop, so each handler is   *)
(* one atomic action.                                                      *)
(*                                                                         *)
(* Time is counted in milliseconds.  The clock advances in steps of        *)
(* ClockStep; the periodic sweep may run at any instant of it.             *)
(***************************************************************************)
EXTENDS Integers, Sequences, FiniteSets, TLC

\* ---------------------------------------------------------------- bounds
MaxId == 3
MaxTicks == 2

SocketIds == 1 .. MaxId

\* ------------------------------------------------------ program constants
Timeout == 5 * 60 * 1000

\* The granularity of the model's clock: one timeout period, so that a queue
\* entry is seen at age 0, at age = Timeout (not yet expired) and beyond it.
ClockStep == Timeout

\* JavaScript's undefined / null, as returned by Map.get and findMatch.
Undefined == 0

\* A signal payload is whatever the client passed to emit("signal", ...):
\* an object carrying a type, or nothing at all (undefined).
NoPayload == "undefined"
Payloads == {"offer", "candidate", NoPayload}

VARIABLES
  variant,         \* "js" (part_000) or "ts" (index.ts): the server that runs
  now,             \* Date.now()
  sockets,         \* io.sockets.sockets: the ids of the open connections
  closed,          \* ids whose connection has ended (an id is never reused)
  waitingQueue,    \* part_000: sequence of user objects
  peers,           \* part_000: Map socketId -> peerSocketId
  userInfo,        \* part_000: Map socketId -> user object
  tsWaitingQueue,  \* index.ts: sequence of socket ids
  tsPeers,         \* index.ts: Map socketId -> peerSocketId
  tsRunning,       \* index.ts: FALSE once an uncaught exception ended the process
  emitted,         \* the messages emitted by the handler that ran last, in order
  last,            \* the event handled last, with the handler's locals
  told             \* per open socket: the peer its client was last told about

vars == <<variant, now, sockets, closed, waitingQueue, peers, userInfo,
          tsWaitingQueue, tsPeers, tsRunning, emitted, last, told>>

jsVars == <<waitingQueue, peers, userInfo>>
tsVars == <<tsWaitingQueue, tsPeers, tsRunning>>

\* socket.id of a new connection: a fresh id, never used before.  Ids are
\* opaque, so the k-th connection is given the id k.
NextSocketId == Cardinality(sockets \cup closed) + 1

\* ------------------------------------------------------------------ Map
EmptyMap == [k \in {} |-> Undefined]

MapGet(m, k) == IF k \in DOMAIN m THEN m[k] ELSE Undefined

MapSet(m, k, v) == [x \in (DOMAIN m) \cup {k} |-> IF x = k THEN v ELSE m[x]]

MapDelete(m, k) == [x \in (DOMAIN m) \ {k} |-> m[x]]

\* --------------------------------------------------------------- messages
NoData == "-"

MatchFoundMsg(to, peerSocketId, isInitiator) ==
  [to |-> to, event |-> "match-found", peerSocketId |-> peerSocketId,
   isInitiator |-> isInitiator, payload |-> NoData, message |-> NoData]

WaitingForPeerMsg(to) ==
  [to |-> to, event |-> "waiting-for-peer", peerSocketId |-> Undefined,
   isInitiator |-> FALSE, payload |-> NoData, message |-> NoData]

PeerDisconnectedMsg(to) ==
  [to |-> to, event |-> "peer-disconnected", peerSocketId |-> Undefined,
   isInitiator |-> FALSE, payload |-> NoData, message |-> NoData]

SignalMsg(to, payload) ==
  [to |-> to, event |-> "signal", peerSocketId |-> Undefined,
   isInitiator |-> FALSE, payload |-> payload, message |-> NoData]

ErrorMsg(to) ==
  [to |-> to, event |-> "error", peerSocketId |-> Undefined,
   isInitiator |-> FALSE, payload |-> NoData,
   message |-> "No active peer connection"]

\* The record of the event handled last: the event, the socket it came from,
\* the payload it carried, and the handler's locals (the partner read from
\* peers on entry, the partner returned by the matching step).
Event(op, id, payload, currentPeer, matched) ==
  [op |-> op, id |-> id, payload |-> payload, currentPeer |-> currentPeer,
   matched |-> matched]

\* What the clients have been told.  match-found names a peer to its
\* recipient; peer-disconnected and waiting-for-peer tell the recipient that
\* it has none.  A message to a socket that is not open reaches no one.
RECURSIVE Notified(_, _, _)
Notified(t, msgs, open) ==
  IF Len(msgs) = 0
    THEN t
    ELSE LET msg == Head(msgs)
             t1 == IF msg.to \notin open
                     THEN t
                     ELSE IF msg.event = "match-found"
                            THEN MapSet(t, msg.to, msg.peerSocketId)
                            ELSE IF msg.event \in {"peer-disconnected",
                                                   "waiting-for-peer"}
                                   THEN MapSet(t, msg.to, Undefined)
                                   ELSE t
         IN Notified(t1, Tail(msgs), open)

\* ------------------------------------------------------ part_000 helpers
\* The queue after  waitingQueue.filter(user => user.socketId !== socketId).
QueueWithoutNothing(q, socketId) == q

QueueWithout(q, socketId) == SelectSeq(q, LAMBDA user : user.socketId # socketId)

\* cleanupUser's effect on peers: both directions of the pairing go.
cleanupPeersOneSided(p, socketId) == MapDelete(p, socketId)

cleanupPeersKeepsOwn(p, socketId) ==
  LET peerSocketId == MapGet(p, socketId) IN
    IF peerSocketId # Undefined THEN MapDelete(p, peerSocketId) ELSE p

cleanupPeers(p, socketId) ==
  LET peerSocketId == MapGet(p, socketId) IN
    IF peerSocketId # Undefined
      THEN MapDelete(MapDelete(p, peerSocketId), socketId)
      ELSE p

\* findMatch: the socket id shifted from the head of the queue (or null),
\* together with the queue it leaves behind.  The argument currentSocketId
\* is not used by the code.
findMatchSkipSelf(q, currentSocketId) ==
  IF Len(q) = 0 \/ Head(q).socketId = currentSocketId
    THEN [matched |-> Undefined, queue |-> q]
    ELSE [matched |-> Head(q).socketId, queue |-> Tail(q)]

findMatch(q, currentSocketId) ==
  IF Len(q) = 0
    THEN [matched |-> Undefined, queue |-> q]
    ELSE [matched |-> Head(q).socketId, queue |-> Tail(q)]

\* peers.set(socket.id, peerSocketId); peers.set(peerSocketId, socket.id).
setPairOneWay(p, socketId, peerSocketId) == MapSet(p, socketId, peerSocketId)

setPair(p, socketId, peerSocketId) ==
  MapSet(MapSet(p, socketId, peerSocketId), peerSocketId, socketId)

\* The two match-found emits: the socket taken from the queue is the initiator.
matchFoundEmitsNewcomerInitiates(socketId, peerSocketId) ==
  << MatchFoundMsg(peerSocketId, socketId, FALSE),
     MatchFoundMsg(socketId, peerSocketId, TRUE) >>

matchFoundEmits(socketId, peerSocketId) ==
  << MatchFoundMsg(peerSocketId, socketId, TRUE),
     MatchFoundMsg(socketId, peerSocketId, FALSE) >>

\* find-next's first step: the pairing of the requesting socket is removed.
findNextUnpairKeepsPeer(p, socketId) == MapDelete(p, socketId)

findNextUnpairKeepsOwn(p, socketId) ==
  LET currentPeer == MapGet(p, socketId) IN
    IF currentPeer # Undefined THEN MapDelete(p, currentPeer) ELSE p

findNextUnpair(p, socketId) ==
  LET currentPeer == MapGet(p, socketId) IN
    IF currentPeer # Undefined
      THEN MapDelete(MapDelete(p, currentPeer), socketId)
      ELSE p

\* What the signal handler emits.  Reading payload.type for the log throws
\* when the payload is undefined; the catch block logs and emits nothing.
signalEmitsNoError(p, open, socketId, payload) ==
  LET peerSocketId == MapGet(p, socketId) IN
    IF peerSocketId # Undefined /\ peerSocketId \in open /\ payload # NoPayload
      THEN << SignalMsg(peerSocketId, payload) >>
      ELSE << >>

signalEmits(p, open, socketId, payload) ==
  LET peerSocketId == MapGet(p, socketId) IN
    IF peerSocketId # Undefined /\ peerSocketId \in open
      THEN IF payload = NoPayload
             THEN << >>
             ELSE << SignalMsg(peerSocketId, payload) >>
      ELSE << ErrorMsg(socketId) >>

\* What the disconnect handler emits: peer-disconnected to the partner, if the
\* partner's socket is among the open ones.
disconnectEmits(p, open, socketId) ==
  LET peerSocketId == MapGet(p, socketId) IN
    IF peerSocketId # Undefined /\ peerSocketId \in open
      THEN << PeerDisconnectedMsg(peerSocketId) >>
      ELSE << >>

\* GET /health: the counts of the snapshot.  activePairs is peers.size / 2, a
\* floating-point division; the snapshot keeps its numerator.
healthSnapshot(open, q, p) ==
  [activeConnections |-> Cardinality(open),
   waitingQueue |-> Len(q),
   peersSize |-> Cardinality(DOMAIN p)]

\* ------------------------------------------------------------------ Init
Init ==
  /\ variant \in {"js", "ts"}
  /\ now = 0
  /\ sockets = {}
  /\ closed = {}
  /\ waitingQueue = << >>
  /\ peers = EmptyMap
  /\ userInfo = EmptyMap
  /\ tsWaitingQueue = << >>
  /\ tsPeers = EmptyMap
  /\ tsRunning = TRUE
  /\ emitted = << >>
  /\ last = Event("init", Undefined, NoData, Undefined, Undefined)
  /\ told = EmptyMap

\* ------------------------------------------------------ part_000 handlers
\* io.on("connection"): a new socket, already registered in io.sockets.sockets.
Connection(id) ==
  /\ variant = "js"
  /\ id = NextSocketId
  /\ sockets' = sockets \cup {id}
  /\ LET user == [socketId |-> id, joinedAt |-> now]
         m == findMatch(waitingQueue, id)
         peerSocketId == m.matched
     IN /\ userInfo' = MapSet(userInfo, id, user)
        /\ IF peerSocketId # Undefined
             THEN /\ peers' = setPair(peers, id, peerSocketId)
                  /\ waitingQueue' = m.queue
                  /\ emitted' = matchFoundEmits(id, peerSocketId)
             ELSE /\ peers' = peers
                  /\ waitingQueue' = Append(m.queue, user)
                  /\ emitted' = << WaitingForPeerMsg(id) >>
        /\ last' = Event("connection", id, NoData, Undefined, peerSocketId)
  /\ told' = Notified(told, emitted', sockets')
  /\ UNCHANGED <<variant, now, closed, tsVars>>

\* socket.on("signal").
OnSignal(id, payload) ==
  /\ variant = "js"
  /\ id \in sockets
  /\ emitted' = signalEmits(peers, sockets, id, payload)
  /\ last' = Event("signal", id, payload, MapGet(peers, id), Undefined)
  /\ told' = Notified(told, emitted', sockets)
  /\ UNCHANGED <<variant, now, sockets, closed, jsVars, tsVars>>

\* socket.on("find-next").  `user` is the object built when the socket
\* connected, the one stored in userInfo.
OnFindNext(id) ==
  /\ variant = "js"
  /\ id \in sockets
  /\ LET user == userInfo[id]
         currentPeer == MapGet(peers, id)
         peers1 == findNextUnpair(peers, id)
         emitted1 == IF currentPeer # Undefined
                       THEN << PeerDisconnectedMsg(currentPeer) >>
                       ELSE << >>
         m == findMatch(waitingQueue, id)
         newPeerSocketId == m.matched
     IN /\ IF newPeerSocketId # Undefined
             THEN /\ peers' = setPair(peers1, id, newPeerSocketId)
                  /\ waitingQueue' = m.queue
                  /\ emitted' = emitted1 \o matchFoundEmits(id, newPeerSocketId)
             ELSE /\ peers' = peers1
                  /\ waitingQueue' = Append(m.queue, user)
                  /\ emitted' = emitted1 \o << WaitingForPeerMsg(id) >>
        /\ last' = Event("find-next", id, NoData, currentPeer, newPeerSocketId)
  /\ told' = Notified(told, emitted', sockets)
  /\ UNCHANGED <<variant, now, sockets, closed, userInfo, tsVars>>

\* socket.on("disconnect").  socket.io has removed the socket from
\* io.sockets.sockets before the handler runs.
OnDisconnect(id) ==
  /\ variant = "js"
  /\ id \in sockets
  /\ sockets' = sockets \ {id}
  /\ closed' = closed \cup {id}
  /\ LET peerSocketId == MapGet(peers, id) IN
       /\ emitted' = disconnectEmits(peers, sockets', id)
       /\ peers' = cleanupPeers(peers, id)
       /\ waitingQueue' = QueueWithout(waitingQueue, id)
       /\ userInfo' = MapDelete(userInfo, id)
       /\ last' = Event("disconnect", id, NoData, peerSocketId, Undefined)
  /\ told' = MapDelete(Notified(told, emitted', sockets'), id)
  /\ UNCHANGED <<variant, now, tsVars>>

\* The setInterval callback: drop the queue entries older than the timeout.
isExpiredAtTimeout(user, t) == t - user.joinedAt >= Timeout

isExpiredReversed(user, t) == user.joinedAt - t > Timeout

isExpired(user, t) == t - user.joinedAt > Timeout

\* The sweep logs QUEUE_TIMEOUT for every entry it drops; the event record
\* keeps the socket id of the first one (Undefined when nothing is dropped).
ExpireSweep ==
  /\ variant = "js"
  /\ waitingQueue' = SelectSeq(waitingQueue, LAMBDA user : ~isExpired(user, now))
  /\ emitted' = << >>
  /\ LET dropped == SelectSeq(waitingQueue, LAMBDA user : isExpired(user, now))
     IN last' = Event("sweep",
                      IF Len(dropped) > 0 THEN Head(dropped).socketId ELSE Undefined,
                      NoData, Undefined, Undefined)
  /\ told' = Notified(told, emitted', sockets)
  /\ UNCHANGED <<variant, now, sockets, closed, peers, userInfo, tsVars>>

\* The clock advances.
Tick ==
  /\ now < MaxTicks * ClockStep
  /\ now' = now + ClockStep
  /\ emitted' = << >>
  /\ last' = Event("tick", Undefined, NoData, Undefined, Undefined)
  /\ told' = Notified(told, emitted', sockets)
  /\ UNCHANGED <<variant, sockets, closed, jsVars, tsVars>>

\* ------------------------------------------------------ index.ts handlers
\* handleDisconnect: a paired socket's partner is notified and the pairing
\* removed; otherwise the socket is spliced out of the queue at its first index.
IndexOf(q, socketId) ==
  IF \E i \in 1 .. Len(q) : q[i] = socketId
    THEN CHOOSE i \in 1 .. Len(q) :
           /\ q[i] = socketId
           /\ \A j \in 1 .. (i - 1) : q[j] # socketId
    ELSE 0

Splice(q, i) == SubSeq(q, 1, i - 1) \o SubSeq(q, i + 1, Len(q))

handleDisconnect(p, q, socketId) ==
  LET peerSocketId == MapGet(p, socketId)
      queueIndex == IndexOf(q, socketId)
  IN IF peerSocketId # Undefined
       THEN [peers |-> MapDelete(MapDelete(p, peerSocketId), socketId),
             queue |-> q,
             emitted |-> << PeerDisconnectedMsg(peerSocketId) >>]
       ELSE [peers |-> p,
             queue |-> IF queueIndex > 0 THEN Splice(q, queueIndex) ELSE q,
             emitted |-> << >>]

\* io.on('connection'): no message is emitted when the socket is queued.
TsConnection(id) ==
  /\ variant = "ts"
  /\ tsRunning
  /\ id = NextSocketId
  /\ sockets' = sockets \cup {id}
  /\ IF Len(tsWaitingQueue) > 0
       THEN LET peerSocketId == Head(tsWaitingQueue) IN
              /\ tsWaitingQueue' = Tail(tsWaitingQueue)
              /\ tsPeers' = MapSet(MapSet(tsPeers, id, peerSocketId), peerSocketId, id)
              /\ emitted' = << MatchFoundMsg(peerSocketId, id, TRUE),
                               MatchFoundMsg(id, peerSocketId, FALSE) >>
              /\ last' = Event("connection", id, NoData, Undefined, peerSocketId)
       ELSE /\ tsWaitingQueue' = Append(tsWaitingQueue, id)
            /\ tsPeers' = tsPeers
            /\ emitted' = << >>
            /\ last' = Event("connection", id, NoData, Undefined, Undefined)
  /\ told' = Notified(told, emitted', sockets')
  /\ UNCHANGED <<variant, now, closed, tsRunning, jsVars>>

\* socket.on('signal').  Object.keys(payload) for the log throws when the
\* payload is undefined; nothing catches it and the process ends.
TsOnSignal(id, payload) ==
  /\ variant = "ts"
  /\ tsRunning
  /\ id \in sockets
  /\ LET peerSocketId == MapGet(tsPeers, id) IN
       /\ emitted' = IF peerSocketId # Undefined /\ payload # NoPayload
                       THEN << SignalMsg(peerSocketId, payload) >>
                       ELSE << >>
       /\ tsRunning' = ~(peerSocketId # Undefined /\ payload = NoPayload)
       /\ last' = Event("signal", id, payload, peerSocketId, Undefined)
  /\ told' = Notified(told, emitted', sockets)
  /\ UNCHANGED <<variant, now, sockets, closed, tsWaitingQueue, tsPeers, jsVars>>

\* socket.on('find-next'): handleDisconnect, then the matchmaking again.
TsOnFindNext(id) ==
  /\ variant = "ts"
  /\ tsRunning
  /\ id \in sockets
  /\ LET d == handleDisconnect(tsPeers, tsWaitingQueue, id) IN
       IF Len(d.queue) > 0
         THEN LET peerSocketId == Head(d.queue) IN
                /\ tsWaitingQueue' = Tail(d.queue)
                /\ tsPeers' = MapSet(MapSet(d.peers, id, peerSocketId), peerSocketId, id)
                /\ emitted' = d.emitted \o
                              << MatchFoundMsg(peerSocketId, id, TRUE),
                                 MatchFoundMsg(id, peerSocketId, FALSE) >>
                /\ last' = Event("find-next", id, NoData, MapGet(tsPeers, id),
                                 peerSocketId)
         ELSE /\ tsWaitingQueue' = Append(d.queue, id)
              /\ tsPeers' = d.peers
              /\ emitted' = d.emitted
              /\ last' = Event("find-next", id, NoData, MapGet(tsPeers, id),
                               Undefined)
  /\ told' = Notified(told, emitted', sockets)
  /\ UNCHANGED <<variant, now, sockets, closed, tsRunning, jsVars>>

\* socket.on('disconnect').
TsOnDisconnect(id) ==
  /\ variant = "ts"
  /\ tsRunning
  /\ id \in sockets
  /\ sockets' = sockets \ {id}
  /\ closed' = closed \cup {id}
  /\ LET d == handleDisconnect(tsPeers, tsWaitingQueue, id) IN
       /\ tsWaitingQueue' = d.queue
       /\ tsPeers' = d.peers
       /\ emitted' = d.emitted
       /\ last' = Event("disconnect", id, NoData, MapGet(tsPeers, id), Undefined)
  /\ told' = MapDelete(Notified(told, emitted', sockets'), id)
  /\ UNCHANGED <<variant, now, tsRunning, jsVars>>

\* ------------------------------------------------------------------ Next
Next ==
  \/ \E id \in SocketIds : Connection(id)
  \/ \E id \in SocketIds, payload \in Payloads : OnSignal(id, payload)
  \/ \E id \in SocketIds : OnFindNext(id)
  \/ \E id \in SocketIds : OnDisconnect(id)
  \/ ExpireSweep
  \/ Tick
  \/ \E id \in SocketIds : TsConnection(id)
  \/ \E id \in SocketIds, payload \in Payloads : TsOnSignal(id, payload)
  \/ \E id \in SocketIds : TsOnFindNext(id)
  \/ \E id \in SocketIds : TsOnDisconnect(id)

Spec == Init /\ [][Next]_vars

\* The clock keeps advancing and the interval timer keeps firing: the sweep
\* runs again and again for as long as the process lives.
FairSpec == Spec /\ WF_vars(Tick) /\ WF_vars(ExpireSweep)

\* ================================================================ claims
\* The socket ids waiting in each server's queue.
QueueIds == {waitingQueue[i].socketId : i \in 1 .. Len(waitingQueue)}
TsQueueIds == {tsWaitingQueue[i] : i \in 1 .. Len(tsWaitingQueue)}

Symmetric(p) == \A a \in DOMAIN p : p[a] \in DOMAIN p /\ p[p[a]] = a

\* C1: PairTable symmetry.  In every reachable state of either server, if
\* peers maps A to B then peers maps B to A.
C1_PairTableSymmetry == Symmetric(peers) /\ Symmetric(tsPeers)

\* A pairing of two sockets that find-next has just established, while the
\* socket's former partner is left unpaired.
C1_Witness ==
  /\ variant = "js"
  /\ last.op = "find-next"
  /\ last.currentPeer \notin {Undefined, last.id}
  /\ last.matched \notin {Undefined, last.id}
  /\ peers[last.id] = last.matched

\* C2: queue/pair disjointness.  In every reachable state of either server
\* no socket id is both an entry of the waiting queue and a key of peers.
C2_QueuePairDisjoint ==
  /\ QueueIds \cap DOMAIN peers = {}
  /\ TsQueueIds \cap DOMAIN tsPeers = {}

\* find-next has put a socket that was paired back into the queue; its
\* former partner is still connected.
C2_Witness ==
  /\ variant = "js"
  /\ last.op = "find-next"
  /\ last.currentPeer \notin {Undefined, last.id}
  /\ last.id \in QueueIds
  /\ last.currentPeer \in sockets

\* C3: every pairing has two distinct parties: no key of peers maps to itself.
C3_DistinctParties == \A a \in DOMAIN peers : peers[a] # a

NoDuplicates(q) == \A i, j \in 1 .. Len(q) : q[i] = q[j] => i = j

\* C4: the waiting queue of either server holds no socket id twice.
C4_QueueNoDuplicates ==
  /\ NoDuplicates([i \in 1 .. Len(waitingQueue) |-> waitingQueue[i].socketId])
  /\ NoDuplicates(tsWaitingQueue)

\* find-next sent again by the socket that find-next had matched with its
\* own queue entry: the socket is queued once.
C4_Witness ==
  /\ variant = "js"
  /\ last.op = "find-next"
  /\ last.currentPeer = last.id
  /\ Len(waitingQueue) = 1
  /\ waitingQueue[1].socketId = last.id

\* The messages of a handler's output that are addressed to one socket, and
\* the match-found messages among a handler's output.
Elems(seq) == {seq[i] : i \in 1 .. Len(seq)}
Count(seq, msg) == Cardinality({i \in 1 .. Len(seq) : seq[i] = msg})
MatchFounds(seq) == SelectSeq(seq, LAMBDA msg : msg.event = "match-found")

\* C5: OnConnect(id) for a new id.  With a non-empty queue the head P is
\* removed, peers gains exactly id -> P and P -> id, and exactly the two
\* match-found messages are emitted (initiator: P).  With an empty queue id
\* is appended at the tail with the current time, peers is unchanged and
\* exactly waiting-for-peer is emitted to id.  Nothing else changes.
C5_OnConnectEffect ==
  [][\A id \in SocketIds :
       (variant = "js" /\ last'.op = "connection" /\ last'.id = id) =>
         IF Len(waitingQueue) > 0
           THEN LET P == Head(waitingQueue).socketId IN
                  /\ waitingQueue' = Tail(waitingQueue)
                  /\ {id, P} \cap DOMAIN peers = {}
                  /\ DOMAIN peers' = DOMAIN peers \cup {id, P}
                  /\ peers'[id] = P
                  /\ peers'[P] = id
                  /\ \A k \in DOMAIN peers : peers'[k] = peers[k]
                  /\ Len(emitted') = 2
                  /\ Elems(emitted') = {MatchFoundMsg(P, id, TRUE),
                                        MatchFoundMsg(id, P, FALSE)}
           ELSE /\ Len(waitingQueue') = 1
                /\ waitingQueue'[1] = [socketId |-> id, joinedAt |-> now]
                /\ peers' = peers
                /\ emitted' = << WaitingForPeerMsg(id) >>]_vars

\* A connecting socket has been paired with the socket that was waiting.
C5_Witness ==
  /\ variant = "js"
  /\ last.op = "connection"
  /\ last.matched # Undefined
  /\ peers[last.id] = last.matched
  /\ waitingQueue = << >>

\* C6: every pairing established by connect or find-next emits match-found
\* to two different sockets that name each other, exactly one of them as
\* initiator, and the initiator is the socket taken from the queue, never
\* the socket whose event triggered the match.
C6_InitiatorIsWaiter ==
  (last.op \in {"connection", "find-next"} /\ last.matched # Undefined) =>
    LET mf == MatchFounds(emitted) IN
      /\ Len(mf) = 2
      /\ mf[1].to # mf[2].to
      /\ mf[1].peerSocketId = mf[2].to
      /\ mf[2].peerSocketId = mf[1].to
      /\ mf[1].isInitiator # mf[2].isInitiator
      /\ \A i \in 1 .. 2 :
           mf[i].isInitiator => (mf[i].to = last.matched /\ mf[i].to # last.id)

\* C7: OnSignal(id, payload) when id has a partner P whose connection is
\* open: exactly one message is emitted, signal with the same payload, to P;
\* P's partner is id; waitingQueue and peers are unchanged.
C7_SignalRelay ==
  [][\A id \in SocketIds :
       (/\ variant = "js"
        /\ last'.op = "signal"
        /\ last'.id = id
        /\ id \in DOMAIN peers
        /\ peers[id] \in sockets) =>
         /\ emitted' = << SignalMsg(peers[id], last'.payload) >>
         /\ peers[peers[id]] = id
         /\ waitingQueue' = waitingQueue
         /\ peers' = peers]_vars

\* C8: OnSignal(id, payload) when id has no partner in peers, or the partner's
\* connection is not open: exactly one message, error, is emitted to id, no
\* signal is emitted, and waitingQueue and peers are unchanged.
C8_SignalNoPeer ==
  [][\A id \in SocketIds :
       (/\ variant = "js"
        /\ last'.op = "signal"
        /\ last'.id = id
        /\ (id \notin DOMAIN peers \/ peers[id] \notin sockets)) =>
         /\ emitted' = << ErrorMsg(id) >>
         /\ \A i \in 1 .. Len(emitted') : emitted'[i].event # "signal"
         /\ waitingQueue' = waitingQueue
         /\ peers' = peers]_vars

\* A signal from an open socket that is neither paired nor queued has been
\* answered with error.
C8_Witness ==
  /\ variant = "js"
  /\ last.op = "signal"
  /\ last.id \in sockets
  /\ last.id \notin DOMAIN peers
  /\ last.id \notin QueueIds
  /\ emitted = << ErrorMsg(last.id) >>

\* C9: OnFindNext(id) when id is paired with P: P receives exactly one
\* peer-disconnected, both directions of the pairing are removed, and P ends
\* neither paired nor queued; then id is paired with the head of the queue if
\* there is one, otherwise id is appended to the queue and receives
\* waiting-for-peer.  After Connect(A); Connect(B), OnFindNext(A) leaves
\* queue = [A] and an empty PairTable.
C9_FindNextLeavesPartner ==
  [][\A id \in SocketIds :
       (/\ variant = "js"
        /\ last'.op = "find-next"
        /\ last'.id = id
        /\ id \in DOMAIN peers) =>
         LET P == peers[id] IN
           /\ Count(emitted', PeerDisconnectedMsg(P)) = 1
           /\ P \notin DOMAIN peers'
           /\ P \notin QueueIds'
           /\ id \in DOMAIN peers' => peers'[id] # P
           /\ IF Len(waitingQueue) > 0
                THEN /\ id \in DOMAIN peers'
                     /\ peers'[id] = Head(waitingQueue).socketId
                ELSE /\ Len(waitingQueue') > 0
                     /\ waitingQueue'[Len(waitingQueue')].socketId = id
                     /\ Count(emitted', WaitingForPeerMsg(id)) = 1
           /\ (sockets = {id, P} /\ closed = {} /\ waitingQueue = << >>) =>
                (QueueIds' = {id} /\ peers' = EmptyMap)]_vars

\* C10: after OnFindNext(id) the id is in exactly one of the two: an entry
\* of the waiting queue, or a key of peers paired with another connection;
\* and it is not paired with the partner it had before the operation.
C10_FindNextOutcome ==
  (variant = "js" /\ last.op = "find-next") =>
    LET id == last.id
        queued == id \in QueueIds
        paired == id \in DOMAIN peers /\ peers[id] # id
    IN /\ queued # paired
       /\ id \in DOMAIN peers => peers[id] # last.currentPeer

\* C11: OnDisconnect(id).  A partner P whose connection is open receives
\* exactly one peer-disconnected; afterwards id occurs nowhere in peers,
\* waitingQueue or userInfo, P is neither paired nor queued, and every pairing
\* and queue entry not involving id is unchanged, the queue order kept.  After
\* Connect(A); Connect(B), OnDisconnect(A) leaves PairTable and queue empty.
C11_OnDisconnectEffect ==
  [][\A id \in SocketIds :
       (variant = "js" /\ last'.op = "disconnect" /\ last'.id = id) =>
         LET P == MapGet(peers, id) IN
           /\ (P # Undefined /\ P \in sockets') =>
                /\ emitted' = << PeerDisconnectedMsg(P) >>
                /\ P \notin DOMAIN peers'
                /\ P \notin QueueIds'
           /\ id \notin DOMAIN peers'
           /\ \A k \in DOMAIN peers' : peers'[k] # id
           /\ id \notin QueueIds'
           /\ id \notin DOMAIN userInfo'
           /\ \A k \in (DOMAIN peers) \ {id, P} :
                k \in DOMAIN peers' /\ peers'[k] = peers[k]
           /\ DOMAIN peers' \subseteq DOMAIN peers
           /\ waitingQueue' =
                SelectSeq(waitingQueue, LAMBDA user : user.socketId # id)
           /\ \A k \in (DOMAIN userInfo) \ {id} :
                k \in DOMAIN userInfo' /\ userInfo'[k] = userInfo[k]
           /\ (sockets = {id, P} /\ closed = {} /\ waitingQueue = << >>) =>
                (peers' = EmptyMap /\ waitingQueue' = << >>)]_vars

\* A socket paired with another open socket has disconnected and its partner
\* has been told.
C11_Witness ==
  /\ variant = "js"
  /\ last.op = "disconnect"
  /\ last.currentPeer \notin {Undefined, last.id}
  /\ last.currentPeer \in sockets
  /\ emitted = << PeerDisconnectedMsg(last.currentPeer) >>
  /\ peers = EmptyMap

\* The state and output of one more run of the disconnect handler for id,
\* started from the state (open, q, p, u).
AfterDisconnect(open, q, p, u, id) ==
  [open |-> open \ {id},
   queue |-> QueueWithout(q, id),
   peers |-> cleanupPeers(p, id),
   userInfo |-> MapDelete(u, id),
   emitted |-> disconnectEmits(p, open \ {id}, id)]

\* C12: OnDisconnect is idempotent.  From every reachable state and for every
\* id, running the handler twice leaves the same waitingQueue, peers and
\* userInfo as running it once, and the second run emits nothing.
C12_DisconnectIdempotent ==
  variant = "js" =>
    \A id \in SocketIds :
      LET once == AfterDisconnect(sockets, waitingQueue, peers, userInfo, id)
          twice == AfterDisconnect(once.open, once.queue, once.peers,
                                   once.userInfo, id)
      IN /\ twice.queue = once.queue
         /\ twice.peers = once.peers
         /\ twice.userInfo = once.userInfo
         /\ twice.emitted = << >>

\* Two open sockets are paired with each other: the first run of the handler
\* for either of them notifies the other and removes the pairing.
C12_Witness ==
  /\ variant = "js"
  /\ \E id \in sockets :
       /\ id \in DOMAIN peers
       /\ peers[id] \in sockets \ {id}
       /\ AfterDisconnect(sockets, waitingQueue, peers, userInfo, id).emitted
            = << PeerDisconnectedMsg(peers[id]) >>

\* The state after the connects c1 .. cn and nothing else, as C13 describes
\* it (the k-th connection has the id k): c(2k-1) and c(2k) are paired, and
\* cn alone is waiting when n is odd.
FifoShape ==
  LET n == Cardinality(sockets) IN
    /\ closed = {}
    /\ sockets = 1 .. n
    /\ DOMAIN peers = 1 .. (2 * (n \div 2))
    /\ \A k \in 1 .. (n \div 2) : peers[2 * k - 1] = 2 * k /\ peers[2 * k] = 2 * k - 1
    /\ QueueIds = IF n % 2 = 1 THEN {n} ELSE {}
    /\ Len(waitingQueue) = n % 2

C14_SweepEffect ==
  [][(variant = "js" /\ last'.op = "sweep") =>
       /\ waitingQueue' =
            SelectSeq(waitingQueue, LAMBDA user : now - user.joinedAt <= Timeout)
       /\ peers' = peers
       /\ emitted' = << >>
       /\ sockets' = sockets
       /\ \A id \in QueueIds \ QueueIds' :
            id \in sockets' /\ id \notin DOMAIN peers']_vars

\* The sweep has dropped a waiting entry; its connection is still open and
\* is neither paired nor queued.
C14_Witness ==
  /\ variant = "js"
  /\ last.op = "sweep"
  /\ last.id # Undefined
  /\ last.id \in sockets
  /\ last.id \notin QueueIds
  /\ last.id \notin DOMAIN peers
  /\ emitted = << >>

\* C15: the age used by the sweep is measured from the append: every entry
\* appended to the queue, by connect or by find-next, carries the time of
\* that append.
C15_EntryCarriesAppendTime ==
  [][\A id \in SocketIds :
       (/\ variant = "js"
        /\ last'.op \in {"connection", "find-next"}
        /\ last'.id = id
        /\ last'.matched = Undefined) =>
         /\ Len(waitingQueue') > 0
         /\ waitingQueue'[Len(waitingQueue')].socketId = id
         /\ waitingQueue'[Len(waitingQueue')].joinedAt = now]_vars

\* The pairings of two connections that peers holds.
Pairings(p) == {{a, p[a]} : a \in {k \in DOMAIN p : p[k] # k}}

\* C16: the health snapshot's pair count is exact: the number of keys of
\* peers is even, and peers.size / 2 is the number of two-connection pairings.
C16_HealthPairCount ==
  variant = "js" =>
    LET size == healthSnapshot(sockets, waitingQueue, peers).peersSize IN
      /\ size % 2 = 0
      /\ size = 2 * Cardinality(Pairings(peers))

\* The last instant of the model's clock.
Horizon == MaxTicks * ClockStep

\* id is waiting with an entry whose timeout falls before the horizon.
WaitingWithin(id) ==
  \E i \in 1 .. Len(waitingQueue) :
    /\ waitingQueue[i].socketId = id
    /\ waitingQueue[i].joinedAt + Timeout < Horizon

\* C17: no waiting entry stays in the queue forever.  With the clock and the
\* sweep scheduled fairly, every entry of the waiting queue eventually leaves
\* it, matched, disconnected or swept, also when its connection sends nothing
\* more.  (The model's clock stops at Horizon, so the entries are those whose
\* timeout the clock can pass.)
C17_EntryLeaves ==
  \A id \in SocketIds :
    (variant = "js" /\ WaitingWithin(id)) ~> (id \notin QueueIds)

\* A waiting entry has left the queue by the sweep alone.
C17_Witness ==
  /\ variant = "js"
  /\ last.op = "sweep"
  /\ last.id # Undefined
  /\ last.id \notin QueueIds
  /\ now > userInfo[last.id].joinedAt + Timeout

\* C18: the waiting queue of either server never holds more than one entry.
C18_QueueAtMostOne == Len(waitingQueue) <= 1 /\ Len(tsWaitingQueue) <= 1

\* One connection is waiting while another open connection is neither
\* waiting nor paired (its partner left by find-next): the queue holds one
\* entry although two connections are unmatched.
C18_Witness ==
  /\ variant = "js"
  /\ Len(waitingQueue) = 1
  /\ \E id \in sockets : id \notin QueueIds /\ id \notin DOMAIN peers

\* C19: only open connections are referenced.  Every id in waitingQueue,
\* every key and value of peers and every key of userInfo is an open
\* connection; so the test io.sockets.sockets.has(peer) of the signal and
\* disconnect handlers never fails for a partner found in peers.
C19_OnlyOpenReferenced ==
  variant = "js" =>
    /\ QueueIds \subseteq sockets
    /\ DOMAIN peers \subseteq sockets
    /\ \A k \in DOMAIN peers : peers[k] \in sockets
    /\ DOMAIN userInfo \subseteq sockets
    /\ (last.op \in {"signal", "disconnect"} /\ last.currentPeer # Undefined) =>
         last.currentPeer \in sockets

\* The state part of C19 alone.
C19_StateOnly ==
  variant = "js" =>
    /\ QueueIds \subseteq sockets
    /\ DOMAIN peers \subseteq sockets
    /\ \A k \in DOMAIN peers : peers[k] \in sockets
    /\ DOMAIN userInfo \subseteq sockets

\* C20: client-visible ordering.  Whenever a signal originating from Y is
\* emitted to X, the most recent match-found emitted to X named Y as peer and
\* no peer-disconnected or waiting-for-peer has been emitted to X since.
C20_SignalFromToldPeer ==
  (variant = "js" /\ last.op = "signal") =>
    \A i \in 1 .. Len(emitted) :
      emitted[i].event = "signal" =>
        MapGet(told, emitted[i].to) = last.id

\* A signal has been relayed between two distinct connections while a third
\* open connection has been told of no peer.
C20_Witness ==
  /\ variant = "js"
  /\ last.op = "signal"
  /\ emitted = << SignalMsg(last.currentPeer, last.payload) >>
  /\ last.currentPeer # last.id
  /\ \E id \in sockets \ {last.id, last.currentPeer} : MapGet(told, id) = Undefined

====
